---- MODULE Spec2Model ----
(***************************************************************************)
(* A model of evaluation/mteb_runner/encoders.py: the two adapters         *)
(* StaticEmbedder (a word-vector table plus a tokenizer) and TorchEncoder  *)
(* (a wrapper around a pooling model).                                     *)
(*                                                                         *)
(* Representation.  A token is a string.  A Reach table is a record        *)
(* [items, vals, size, unk_index, name]: items is the ordered vocabulary,  *)
(* vals[i+1] is the tracked component of the row at 0-based position i     *)
(* (every operation of the file on rows -- scaling a row by a scalar, the  *)
(* mean of rows -- acts on each component alike, so one component is       *)
(* tracked and the dimensionality is kept in size), unk_index is the       *)
(* 0-based position of the unknown token or -1 for None.  A pooled vector  *)
(* is the exact fraction <<numerator, denominator>> in lowest terms.       *)
(* np.log is modelled in fixed point (thousandths).                        *)
(***************************************************************************)
EXTENDS Integers, Sequences, FiniteSets, TLC

VARIABLES
    embedder,   \* the StaticEmbedder returned by the latest constructor call
    fv,         \* the latest from_vectors call: arguments, steps run, outcome
    lastOp,     \* the latest StaticEmbedder operation and what it produced
    models,     \* the pooling models (MeanModeler objects): training, device
    encoders,   \* the TorchEncoder objects: the model each one holds
    torchOp     \* the latest TorchEncoder operation and what it produced

vars == <<embedder, fv, lastOp, models, encoders, torchOp>>

staticVars == <<embedder, fv, lastOp>>
torchVars == <<models, encoders, torchOp>>

\* ------------------------------------------------------------ constants

\* PCA(n_components=300) and the test embeddings.size > 300
PcaComponents == 300

\* the slice [:512] of encode
MaxTokens == 512

\* encode(..., batch_size: int = 32)
DefaultBatchSize == 32

PadToken == "[PAD]"
UnkToken == "[UNK]"

\* ------------------------------------------------------------ bounds

\* the longest sentence list handed to StaticEmbedder.encode
MaxSentences == 2

\* the longest sentence list handed to TorchEncoder.encode
MaxTorchSentences == 4

\* the largest explicit batch size tried besides the default
MaxBatch == 3

\* ------------------------------------------------------------ helpers

Min(a, b) == IF a < b THEN a ELSE b

Abs(a) == IF a < 0 THEN -a ELSE a

RECURSIVE Gcd(_, _)
Gcd(a, b) == IF b = 0 THEN a ELSE Gcd(b, a % b)

\* the fraction num/den (den > 0) in lowest terms
Fraction(num, den) ==
    LET g == Gcd(Abs(num), den)
    IN <<num \div g, den \div g>>

ZeroVector == <<0, 1>>

RECURSIVE Log2Floor(_)
Log2Floor(k) == IF k < 2 THEN 0 ELSE 1 + Log2Floor(k \div 2)

RECURSIVE Pow2(_)
Pow2(f) == IF f = 0 THEN 1 ELSE 2 * Pow2(f - 1)

\* np.log(k) for an integer k >= 1 in thousandths: exact to the unit at the
\* powers of two (ln 2 = 0.693), linear in between.  LnMilli(1) = 0.
LnMilli(k) ==
    LET f == Log2Floor(k)
        p == Pow2(f)
    IN 693 * f + (693 * (k - p)) \div p

\* the 0-based position of token in items, -1 when it is absent
IndexOf(items, token) ==
    IF \E i \in 1..Len(items) : items[i] = token
    THEN (CHOOSE i \in 1..Len(items) : items[i] = token) - 1
    ELSE -1

\* ------------------------------------------------------------ inputs

\* a vocabulary of n words: "a", "b", then "3", "4", ...
BigItems(n) == [i \in 1..n |-> IF i = 1 THEN "a" ELSE IF i = 2 THEN "b" ELSE ToString(i)]

BigVals(n) == [i \in 1..n |-> (i % 7) - 2]

\* the vector files from_vectors is called on
Files == <<
    [status |-> "ok", items |-> <<"a", "b">>, vals |-> <<2, 5>>, size |-> 2, name |-> "small"],
    [status |-> "missing", items |-> <<>>, vals |-> <<>>, size |-> 0, name |-> "missing"],
    [status |-> "malformed", items |-> <<>>, vals |-> <<>>, size |-> 0, name |-> "malformed"],
    [status |-> "ok", items |-> <<"b", UnkToken, "a">>, vals |-> <<4, 7, 1>>,
     size |-> PcaComponents, name |-> "has-unk"],
    [status |-> "ok", items |-> BigItems(PcaComponents - 2), vals |-> BigVals(PcaComponents - 2),
     size |-> PcaComponents + 1, name |-> "wide"],
    [status |-> "ok", items |-> BigItems(PcaComponents - 3), vals |-> BigVals(PcaComponents - 3),
     size |-> PcaComponents + 1, name |-> "wide-299-rows"]
>>

\* a text of n words; every k-th word is out of vocabulary (none when k = 0)
LongText(n, k) ==
    [i \in 1..n |-> IF k > 0 /\ i % k = 0 THEN "x" ELSE IF i % 2 = 1 THEN "a" ELSE "b"]

\* the texts handed to __call__ and encode; a text is its sequence of words
Texts == <<
    <<>>,
    <<"x">>,
    <<"b", "x", "a", UnkToken>>,
    LongText(MaxTokens, 0),
    LongText(MaxTokens + 2, 3),
    LongText(MaxTokens + 3, (MaxTokens \div 2) + 1)
>>

TextIds == DOMAIN Texts

\* the outcomes of the opaque PCA projection on the tracked component
PcaShifts == {0, 1}

\* ------------------------------------------------------------ collaborators

NoReach == [items |-> <<>>, vals |-> <<>>, size |-> 0, unk_index |-> -1, name |-> ""]

\* safe_load_reach(path) on a readable file: the table as stored, no unknown token set
SafeLoadReach(f) ==
    [items |-> f.items, vals |-> f.vals, size |-> f.size, unk_index |-> -1, name |-> f.name]

\* add_token_to_reach(embeddings, token, set_as_unk): the token is appended with
\* a zero row unless the vocabulary already holds it, and made the unknown token on request
AddTokenToReach(r, token, set_as_unk) ==
    LET r2 == IF IndexOf(r.items, token) >= 0 THEN r
              ELSE [r EXCEPT !.items = Append(r.items, token), !.vals = Append(r.vals, 0)]
    IN IF set_as_unk THEN [r2 EXCEPT !.unk_index = IndexOf(r2.items, token)] ELSE r2

\* sklearn's PCA(n_components=n) accepts the table only when n <= min(rows, columns)
PcaFits(r, n) == n <= Len(r.items) /\ n <= r.size

\* PCA(n_components=n).fit_transform: n columns; the projected values are opaque (shift)
PcaFitTransform(r, n, shift) ==
    [r EXCEPT !.size = n, !.vals = [i \in 1..Len(r.vals) |-> r.vals[i] - shift]]

\* np.log(1 / word_frequency(word, "en")) in thousandths, for words of positive frequency
LogInvFreqMilli(word) ==
    CASE word = "a" -> 3863
      [] word = "b" -> 9210
      [] OTHER -> 11513

\* create_tokenizer_from_vocab(items, unk_token, pad_token): a word-level tokenizer
CreateTokenizerFromVocab(items, unk_token, pad_token) ==
    [vocab |-> {items[i] : i \in 1..Len(items)}, unk_token |-> unk_token, pad_token |-> pad_token]

\* tokenizer.tokenize(text): a word of the vocabulary is its own token, any other
\* word the tokenizer's unknown token
Tokenize(tokenizer, text) ==
    [i \in 1..Len(text) |-> IF text[i] \in tokenizer.vocab THEN text[i] ELSE tokenizer.unk_token]

\* the row Reach looks up for a token: its own, or the unknown token's
RowOf(vectors, token) ==
    LET i == IndexOf(vectors.items, token)
    IN vectors.vals[(IF i >= 0 THEN i ELSE vectors.unk_index) + 1]

\* the sum of the rows of the tokens among distinct, each counted as often as it
\* occurs in tokens
RECURSIVE SumOver(_, _, _)
SumOver(vectors, tokens, distinct) ==
    IF distinct = {} THEN 0
    ELSE LET token == CHOOSE t \in distinct : TRUE
         IN Cardinality({j \in 1..Len(tokens) : tokens[j] = token}) * RowOf(vectors, token)
            + SumOver(vectors, tokens, distinct \ {token})

\* the sum of the rows of all tokens
SumRows(vectors, tokens) ==
    SumOver(vectors, tokens, {tokens[j] : j \in 1..Len(tokens)})

\* Reach.mean_pool(tokens, safeguard=False): the mean of the tokens' rows, the
\* zero vector for an empty list
MeanPool(vectors, tokens) ==
    IF tokens = <<>> THEN ZeroVector
    ELSE Fraction(SumRows(vectors, tokens), Len(tokens))

\* the pretrained models from_model is called on: tokenizer and input embeddings
PretrainedModels == <<
    [tokenizer |-> [vocab |-> {"a", "b", UnkToken, PadToken}, unk_token |-> UnkToken,
                    pad_token |-> PadToken],
     embeddings |-> [items |-> <<PadToken, UnkToken, "a", "b">>, vals |-> <<0, 1, 6, -2>>,
                     size |-> 8, unk_index |-> 1, name |-> "tiny-model"]],
    [tokenizer |-> [vocab |-> {"a", "x", "<unk>"}, unk_token |-> "<unk>", pad_token |-> "<pad>"],
     embeddings |-> [items |-> <<"<unk>", "x", "a">>, vals |-> <<3, 4, 5>>,
                     size |-> 4, unk_index |-> 0, name |-> "other-model"]]
>>

\* ------------------------------------------------------------ StaticEmbedder

NoTokenizer == [vocab |-> {}, unk_token |-> "", pad_token |-> ""]

NoEmbedder == [constructed |-> FALSE, vectors |-> NoReach, tokenizer |-> NoTokenizer,
               unk_token |-> ""]

\* StaticEmbedder.__init__(vectors, tokenizer)
StaticEmbedderInit(vectors, tokenizer) ==
    [constructed |-> TRUE, vectors |-> vectors, tokenizer |-> tokenizer,
     unk_token |-> vectors.items[vectors.unk_index + 1]]

\* mutant of WithSpecialTokens: the pad token is not added
WithSpecialTokensNoPad(r) == AddTokenToReach(r, UnkToken, TRUE)

\* from_vectors: the pad token, then the unknown token, are added to the table
WithSpecialTokens(r) ==
    AddTokenToReach(AddTokenToReach(r, PadToken, FALSE), UnkToken, TRUE)

\* from_vectors: apply_pca and embeddings.size > 300
PcaWanted(r, apply_pca) == apply_pca /\ r.size > PcaComponents

\* mutant of ZipfWeights: the ranks start at 2, np.log(np.arange(2, n + 2))
ZipfWeightsFromTwo(n) == [i \in 1..n |-> LnMilli(i + 1)]

\* from_vectors: np.log(np.arange(1, n + 1)), the weight of the row at 0-based
\* position i at index i + 1
ZipfWeights(n) == [i \in 1..n |-> LnMilli(i)]

\* from_vectors: embeddings._vectors *= np.log(np.arange(1, len(embeddings) + 1))[:, None]
ZipfWeight(r) ==
    LET weights == ZipfWeights(Len(r.items))
    IN [r EXCEPT !.vals = [i \in 1..Len(r.vals) |-> r.vals[i] * weights[i]]]

\* from_vectors: embeddings._vectors *= np.log(1 / weight[:, None])
FrequencyWeight(r) ==
    [r EXCEPT !.vals = [i \in 1..Len(r.vals) |-> r.vals[i] * LogInvFreqMilli(r.items[i])]]

Failed(error, steps) ==
    [outcome |-> error, steps |-> steps, unweighted |-> <<>>, embedder |-> NoEmbedder]

\* from_vectors, run to its end: the outcome, the steps it ran in order, the
\* table as it stood before reweighting, and the embedder it returns
FromVectorsRun(f, apply_pca, apply_zipf, apply_frequency, shift) ==
    IF f.status # "ok" THEN Failed(f.status, <<"load">>)
    ELSE
    LET e1 == WithSpecialTokens(SafeLoadReach(f))
        s1 == <<"load", "add_tokens">>
    IN
    IF PcaWanted(e1, apply_pca) /\ ~PcaFits(e1, PcaComponents)
    THEN Failed("pca_error", Append(s1, "pca"))
    ELSE
    LET e2 == IF PcaWanted(e1, apply_pca) THEN PcaFitTransform(e1, PcaComponents, shift) ELSE e1
        s2 == IF PcaWanted(e1, apply_pca) THEN Append(s1, "pca") ELSE s1
    IN
    IF apply_zipf /\ apply_frequency THEN Failed("configuration_error", Append(s2, "raise"))
    ELSE
    LET e3 == IF apply_zipf THEN ZipfWeight(e2) ELSE e2
        s3 == IF apply_zipf THEN Append(s2, "zipf") ELSE s2
        e4 == IF apply_frequency THEN FrequencyWeight(e3) ELSE e3
        s4 == IF apply_frequency THEN Append(s3, "frequency") ELSE s3
    IN [outcome |-> "ok", steps |-> Append(s4, "tokenizer"), unweighted |-> e2.vals,
        embedder |-> StaticEmbedderInit(e4, CreateTokenizerFromVocab(e4.items, UnkToken, PadToken))]

\* mutant of KnownTokens: the filter compares with the literal "[UNK]", not with
\* the table's unknown token
KnownTokensLiteralUnk(self, text) ==
    SelectSeq(Tokenize(self.tokenizer, text), LAMBDA token : token # UnkToken)

\* the tokens of a text that are not the unknown token, in order
KnownTokens(self, text) ==
    SelectSeq(Tokenize(self.tokenizer, text), LAMBDA token : token # self.unk_token)

\* __call__: the token list handed to mean_pool
CallTokens(self, text) == KnownTokens(self, text)

\* mutant of EncodeTokens: the slice is one short, [:511]
EncodeTokensShort(self, sentence) ==
    LET known == KnownTokens(self, sentence)
    IN SubSeq(known, 1, Min(MaxTokens - 1, Len(known)))

\* mutant of EncodeTokens: the tokenizer output is cut to 512 before the unknown
\* tokens are dropped
EncodeTokensTruncateFirst(self, sentence) ==
    LET raw == Tokenize(self.tokenizer, sentence)
    IN SelectSeq(SubSeq(raw, 1, Min(MaxTokens, Len(raw))), LAMBDA token : token # self.unk_token)

\* encode: the token list handed to mean_pool for one sentence
EncodeTokens(self, sentence) ==
    LET known == KnownTokens(self, sentence)
    IN SubSeq(known, 1, Min(MaxTokens, Len(known)))

NoOp == [op |-> "none", texts |-> <<>>, pooled |-> <<>>, status |-> "ok", rows |-> <<>>,
         name |-> ""]

NoCall == [called |-> FALSE, file |-> 0, apply_pca |-> FALSE, apply_zipf |-> FALSE,
           apply_frequency |-> FALSE, outcome |-> "none", steps |-> <<>>, unweighted |-> <<>>]

\* no call is running: the caller holds the previous call's result
Idle == lastOp.op = "none"

\* StaticEmbedder.from_vectors(vector_path, apply_pca, apply_zipf, apply_frequency)
FromVectors(file, apply_pca, apply_zipf, apply_frequency, shift) ==
    LET run == FromVectorsRun(Files[file], apply_pca, apply_zipf, apply_frequency, shift)
    IN /\ Idle
       /\ embedder' = run.embedder
       /\ fv' = [called |-> TRUE, file |-> file, apply_pca |-> apply_pca,
                 apply_zipf |-> apply_zipf, apply_frequency |-> apply_frequency,
                 outcome |-> run.outcome, steps |-> run.steps, unweighted |-> run.unweighted]
       /\ lastOp' = [NoOp EXCEPT !.op = "from_vectors", !.status = run.outcome]
       /\ UNCHANGED torchVars

\* StaticEmbedder.from_model(model_name, module_path)
FromModel(m) ==
    /\ Idle
    /\ embedder' = StaticEmbedderInit(PretrainedModels[m].embeddings, PretrainedModels[m].tokenizer)
    /\ fv' = NoCall
    /\ lastOp' = [NoOp EXCEPT !.op = "from_model"]
    /\ UNCHANGED torchVars

\* mutant of Call: the table is reweighted in place on every call
CallReweighting(text) ==
    /\ Idle
    /\ embedder.constructed
    /\ LET tokens == CallTokens(embedder, Texts[text])
       IN lastOp' = [NoOp EXCEPT !.op = "call", !.texts = <<text>>, !.pooled = <<tokens>>,
                                 !.rows = <<MeanPool(embedder.vectors, tokens)>>]
    /\ embedder' = [embedder EXCEPT !.vectors = ZipfWeight(embedder.vectors)]
    /\ UNCHANGED fv
    /\ UNCHANGED torchVars

\* StaticEmbedder.__call__(text)
Call(text) ==
    /\ Idle
    /\ embedder.constructed
    /\ LET tokens == CallTokens(embedder, Texts[text])
       IN lastOp' = [NoOp EXCEPT !.op = "call", !.texts = <<text>>, !.pooled = <<tokens>>,
                                 !.rows = <<MeanPool(embedder.vectors, tokens)>>]
    /\ UNCHANGED <<embedder, fv>>
    /\ UNCHANGED torchVars

\* mutant of EncodeLoop: each result is put in front of output
RECURSIVE EncodeLoopPrepend(_, _, _)
EncodeLoopPrepend(self, sentences, output) ==
    IF sentences = <<>> THEN output
    ELSE LET tokens == EncodeTokens(self, Texts[Head(sentences)])
             vector == MeanPool(self.vectors, tokens)
         IN EncodeLoopPrepend(self, Tail(sentences),
                              <<[tokens |-> tokens, vector |-> vector]>> \o output)

\* encode: the loop over the sentences, each one's tokens and vector appended to output
RECURSIVE EncodeLoop(_, _, _)
EncodeLoop(self, sentences, output) ==
    IF sentences = <<>> THEN output
    ELSE LET tokens == EncodeTokens(self, Texts[Head(sentences)])
             vector == MeanPool(self.vectors, tokens)
         IN EncodeLoop(self, Tail(sentences),
                       Append(output, [tokens |-> tokens, vector |-> vector]))

\* StaticEmbedder.encode(sentences): np.stack fails on an empty list of rows
Encode(sentences) ==
    /\ Idle
    /\ embedder.constructed
    /\ LET output == EncodeLoop(embedder, sentences, <<>>)
       IN lastOp' = [NoOp EXCEPT !.op = "encode", !.texts = sentences,
                                 !.pooled = [i \in 1..Len(output) |-> output[i].tokens],
                                 !.status = IF output = <<>> THEN "stack_error" ELSE "ok",
                                 !.rows = [i \in 1..Len(output) |-> output[i].vector]]
    /\ UNCHANGED <<embedder, fv>>
    /\ UNCHANGED torchVars

\* StaticEmbedder.name
Name ==
    /\ Idle
    /\ embedder.constructed
    /\ lastOp' = [NoOp EXCEPT !.op = "name", !.name = embedder.vectors.name]
    /\ UNCHANGED <<embedder, fv>>
    /\ UNCHANGED torchVars

\* the call returns: its result goes to the caller, the embedder is idle again
Return ==
    /\ ~Idle
    /\ lastOp' = NoOp
    /\ UNCHANGED <<embedder, fv>>
    /\ UNCHANGED torchVars

SentenceLists == UNION {[1..n -> TextIds] : n \in 0..MaxSentences}

StaticInit ==
    /\ embedder = NoEmbedder
    /\ fv = NoCall
    /\ lastOp = NoOp

\* ------------------------------------------------------------ TorchEncoder

ModelIds == {1, 2}

EncoderIds == {1, 2}

Devices == {"cpu", "cuda"}

\* the sentences handed to TorchEncoder.encode
TorchSentences == {"s1", "s2"}

TorchSentenceLists == UNION {[1..n -> TorchSentences] : n \in 0..MaxTorchSentences}

BatchSizes == (-1..MaxBatch) \cup {DefaultBatchSize}

\* the model's output row for one sentence
ModelRow(sentence) == [row_of |-> sentence]

\* self.model(self.model.tokenize(batch)["input_ids"]): one row per sentence of the batch
Forward(batch) == [i \in 1..Len(batch) |-> ModelRow(batch[i])]

\* range(0, len(sentences), batch_size), for batch_size # 0
BatchIndices(n, batch_size) ==
    IF batch_size < 0 \/ n = 0 THEN <<>>
    ELSE [k \in 1..((n + batch_size - 1) \div batch_size) |-> (k - 1) * batch_size]

\* mutant of Batch: the slice is one short
BatchShort(sentences, batch_index, batch_size) ==
    SubSeq(sentences, batch_index + 1, Min(batch_index + batch_size - 1, Len(sentences)))

\* sentences[batch_index : batch_index + batch_size]
Batch(sentences, batch_index, batch_size) ==
    SubSeq(sentences, batch_index + 1, Min(batch_index + batch_size, Len(sentences)))

\* torch.cat(results) of a non-empty list of results
RECURSIVE Cat(_)
Cat(results) ==
    IF results = <<>> THEN <<>> ELSE Head(results) \o Cat(Tail(results))

NoTorchOp == [op |-> "none", self |-> 0, device |-> "", returned |-> 0, sentences |-> <<>>,
              batch_size |-> 0, batches |-> <<>>, status |-> "ok", output |-> <<>>]

TorchIdle == torchOp.op = "none"

\* mutant of TorchEncoderInit: the model is kept as given, eval() is not called
TorchEncoderInitNoEval(e, m) ==
    /\ torchOp.op = "none"
    /\ encoders[e] = 0
    /\ encoders' = [encoders EXCEPT ![e] = m]
    /\ torchOp' = [torchOp EXCEPT !.op = "init", !.self = e, !.returned = e]
    /\ UNCHANGED models
    /\ UNCHANGED staticVars

\* TorchEncoder.__init__(model): model.eval() puts the model in evaluation mode
\* and returns it
TorchEncoderInit(e, m) ==
    /\ TorchIdle
    /\ encoders[e] = 0
    /\ models' = [models EXCEPT ![m].training = FALSE]
    /\ encoders' = [encoders EXCEPT ![e] = m]
    /\ torchOp' = [NoTorchOp EXCEPT !.op = "init", !.self = e, !.returned = e]
    /\ UNCHANGED staticVars

\* TorchEncoder.to(device): model.to(device) moves the model and returns it
To(e, device) ==
    /\ TorchIdle
    /\ encoders[e] # 0
    /\ models' = [models EXCEPT ![encoders[e]].device = device]
    /\ encoders' = [encoders EXCEPT ![e] = encoders[e]]
    /\ torchOp' = [NoTorchOp EXCEPT !.op = "to", !.self = e, !.device = device, !.returned = e]
    /\ UNCHANGED staticVars

\* TorchEncoder.encode(sentences, batch_size): range() rejects a step of 0, and
\* torch.cat an empty list of results
TorchEncode(e, sentences, batch_size) ==
    /\ TorchIdle
    /\ encoders[e] # 0
    /\ LET indices == IF batch_size = 0 THEN <<>> ELSE BatchIndices(Len(sentences), batch_size)
           batches == [k \in 1..Len(indices) |-> Batch(sentences, indices[k], batch_size)]
           results == [k \in 1..Len(batches) |-> Forward(batches[k])]
       IN torchOp' = [NoTorchOp EXCEPT !.op = "encode", !.self = e, !.sentences = sentences,
                         !.batch_size = batch_size, !.batches = batches,
                         !.status = IF batch_size = 0 THEN "range_error"
                                    ELSE IF results = <<>> THEN "cat_error" ELSE "ok",
                         !.output = Cat(results)]
    /\ UNCHANGED <<models, encoders>>
    /\ UNCHANGED staticVars

\* the call returns: its result goes to the caller
TorchReturn ==
    /\ ~TorchIdle
    /\ torchOp' = NoTorchOp
    /\ UNCHANGED <<models, encoders>>
    /\ UNCHANGED staticVars

\* no encoder is constructed yet; a freshly built torch module is in training
\* mode, on the cpu
TorchInit ==
    /\ models = [m \in ModelIds |-> [training |-> TRUE, device |-> "cpu"]]
    /\ encoders = [e \in EncoderIds |-> 0]
    /\ torchOp = NoTorchOp

Init == StaticInit /\ TorchInit

Next ==
    \/ \E file \in DOMAIN Files, apply_pca \in BOOLEAN, apply_zipf \in BOOLEAN,
          apply_frequency \in BOOLEAN, shift \in PcaShifts :
          FromVectors(file, apply_pca, apply_zipf, apply_frequency, shift)
    \/ \E m \in DOMAIN PretrainedModels : FromModel(m)
    \/ \E text \in TextIds : Call(text)
    \/ \E sentences \in SentenceLists : Encode(sentences)
    \/ Name
    \/ Return

Spec == Init /\ [][Next]_vars

TorchNext ==
    \/ \E e \in EncoderIds, m \in ModelIds : TorchEncoderInit(e, m)
    \/ \E e \in EncoderIds, device \in Devices : To(e, device)
    \/ \E e \in EncoderIds, sentences \in TorchSentenceLists, batch_size \in BatchSizes :
          TorchEncode(e, sentences, batch_size)
    \/ TorchReturn

TorchSpec == Init /\ [][TorchNext]_vars

\* ------------------------------------------------------------ claims

\* the tokenizer output for text t with every unknown-token occurrence removed
ExpectedKnown(t) ==
    SelectSeq([i \in 1..Len(Texts[t]) |->
                  IF Texts[t][i] \in embedder.tokenizer.vocab THEN Texts[t][i]
                  ELSE embedder.tokenizer.unk_token],
              LAMBDA token : token # embedder.unk_token)

\* the first n elements of seq
FirstN(seq, n) == [i \in 1..(IF Len(seq) < n THEN Len(seq) ELSE n) |-> seq[i]]

\* the mean of the rows of a non-empty token list, the zero vector of an empty one
ExpectedMean(tokens) ==
    IF tokens = <<>> THEN <<0, 1>>
    ELSE Fraction(SumRows(embedder.vectors, tokens), Len(tokens))

\* how many times step occurs in steps
Count(steps, step) == Cardinality({i \in 1..Len(steps) : steps[i] = step})

\* C1: from_vectors with apply_zipf and apply_frequency both true fails with the
\* configuration error whatever the file, before the table is loaded or
\* transformed, and returns no embedder.
C1_ConfigurationErrorFirst ==
    (fv.called /\ fv.apply_zipf /\ fv.apply_frequency) =>
        /\ fv.outcome = "configuration_error"
        /\ fv.steps = <<"raise">>
        /\ ~embedder.constructed

\* C2: whenever from_vectors returns an embedder, its table holds "[PAD]" and
\* "[UNK]", "[UNK]" is the unknown token, and the dimensionality is 300 when
\* apply_pca is set and the file's dimensionality exceeds 300, and the file's otherwise.
C2_SpecialTokensAndDimension ==
    (fv.called /\ fv.outcome = "ok") =>
        /\ embedder.constructed
        /\ \E i \in 1..Len(embedder.vectors.items) : embedder.vectors.items[i] = "[PAD]"
        /\ \E i \in 1..Len(embedder.vectors.items) : embedder.vectors.items[i] = "[UNK]"
        /\ embedder.vectors.unk_index >= 0
        /\ embedder.vectors.items[embedder.vectors.unk_index + 1] = "[UNK]"
        /\ embedder.unk_token = "[UNK]"
        /\ embedder.vectors.size =
               IF fv.apply_pca /\ Files[fv.file].size > 300 THEN 300 ELSE Files[fv.file].size

\* C2 witness: from_vectors returned an embedder after reducing a table of more
\* than 300 columns.
C2_Witness ==
    /\ fv.called /\ fv.outcome = "ok" /\ fv.apply_pca
    /\ Files[fv.file].size > 300
    /\ embedder.constructed

\* C3: for a text of at most 512 tokens, embedder(text) and row 0 of
\* embedder.encode([text]) pool the same token list and are the same vector.
C3_CallAgreesWithEncode ==
    /\ (lastOp.op = "call"
        /\ Len(Tokenize(embedder.tokenizer, Texts[lastOp.texts[1]])) <= 512) =>
           LET viaEncode == EncodeLoop(embedder, lastOp.texts, <<>>)
           IN /\ Len(viaEncode) = 1
              /\ lastOp.pooled[1] = viaEncode[1].tokens
              /\ lastOp.rows[1] = viaEncode[1].vector
    /\ (lastOp.op = "encode" /\ Len(lastOp.texts) = 1
        /\ Len(Tokenize(embedder.tokenizer, Texts[lastOp.texts[1]])) <= 512) =>
           LET tokens == CallTokens(embedder, Texts[lastOp.texts[1]])
           IN /\ lastOp.pooled[1] = tokens
              /\ lastOp.rows[1] = MeanPool(embedder.vectors, tokens)

\* C3 witness: encode of a one-text list whose text has exactly 512 tokens, all pooled.
C3_Witness ==
    /\ lastOp.op = "encode" /\ Len(lastOp.texts) = 1
    /\ Len(Tokenize(embedder.tokenizer, Texts[lastOp.texts[1]])) = 512
    /\ Len(lastOp.pooled[1]) = 512

\* C4: encode of a non-empty list returns one row per sentence, and row i is the
\* pooled vector of the i-th sentence, whatever the other sentences are.
C4_EncodePreservesOrder ==
    (lastOp.op = "encode" /\ lastOp.texts # <<>>) =>
        /\ lastOp.status = "ok"
        /\ Len(lastOp.rows) = Len(lastOp.texts)
        /\ \A i \in 1..Len(lastOp.texts) :
               lastOp.rows[i] = ExpectedMean(FirstN(ExpectedKnown(lastOp.texts[i]), 512))

\* C4 witness: encode of several sentences whose rows differ.
C4_Witness ==
    /\ lastOp.op = "encode" /\ Len(lastOp.texts) >= 2
    /\ lastOp.status = "ok"
    /\ lastOp.rows[1] # lastOp.rows[2]

\* C6 as claimed: in __call__ and in encode the token list handed to mean-pooling
\* is exactly the tokenizer output with every unknown token removed.
C6_PooledIsAllKnown ==
    lastOp.op \in {"call", "encode"} =>
        \A i \in 1..Len(lastOp.texts) : lastOp.pooled[i] = ExpectedKnown(lastOp.texts[i])

\* C6 amended: the pooled list never holds the unknown token; in __call__ it is
\* the tokenizer output with every unknown token removed, order kept, and in
\* encode it is the first 512 tokens of that list.
C6_UnknownExcluded ==
    /\ lastOp.op \in {"call", "encode"} =>
           \A i \in 1..Len(lastOp.pooled) : \A j \in 1..Len(lastOp.pooled[i]) :
               lastOp.pooled[i][j] # embedder.vectors.items[embedder.vectors.unk_index + 1]
    /\ lastOp.op = "call" => lastOp.pooled = <<ExpectedKnown(lastOp.texts[1])>>
    /\ lastOp.op = "encode" =>
           /\ Len(lastOp.pooled) = Len(lastOp.texts)
           /\ \A i \in 1..Len(lastOp.texts) :
                  lastOp.pooled[i] = FirstN(ExpectedKnown(lastOp.texts[i]), 512)

\* C6 witness: encode pooled a sentence that tokenizes partly to unknown tokens
\* and keeps more than 512 tokens once they are removed.
C6_Witness ==
    /\ lastOp.op = "encode"
    /\ \E i \in 1..Len(lastOp.texts) :
           /\ Len(ExpectedKnown(lastOp.texts[i])) > 512
           /\ Len(ExpectedKnown(lastOp.texts[i])) < Len(Texts[lastOp.texts[i]])
           /\ Len(lastOp.pooled[i]) = 512

\* C7: encode pools at most 512 tokens per sentence: the first 512 of the tokens
\* left after the unknown tokens were dropped, not the known tokens among the
\* first 512 raw tokens.
C7_DropThenTruncate ==
    lastOp.op = "encode" =>
        \A i \in 1..Len(lastOp.texts) :
            LET raw == [j \in 1..Len(Texts[lastOp.texts[i]]) |->
                           IF Texts[lastOp.texts[i]][j] \in embedder.tokenizer.vocab
                           THEN Texts[lastOp.texts[i]][j] ELSE embedder.tokenizer.unk_token]
                dropped == SelectSeq(raw, LAMBDA token : token # embedder.unk_token)
            IN /\ Len(lastOp.pooled[i]) <= 512
               /\ Len(lastOp.pooled[i]) = IF Len(dropped) < 512 THEN Len(dropped) ELSE 512
               /\ \A j \in 1..Len(lastOp.pooled[i]) : lastOp.pooled[i][j] = dropped[j]

\* C7 witness: a sentence of more than 512 raw tokens with an unknown token among
\* the first 512 and known tokens after them: 512 tokens are pooled, more than
\* the first 512 raw tokens hold.
C7_Witness ==
    /\ lastOp.op = "encode"
    /\ \E i \in 1..Len(lastOp.texts) :
           /\ Len(lastOp.pooled[i]) = 512
           /\ \E j \in 1..512 : Texts[lastOp.texts[i]][j] \notin embedder.tokenizer.vocab

\* C9: a StaticEmbedder is not changed by __call__, encode, name or a return
\* (table, tokenizer and unknown token stay as constructed), and from_vectors
\* applies PCA at most once and one reweighting at most.
C9_ImmutableAfterConstruction ==
    [][/\ (embedder.constructed /\ lastOp'.op \notin {"from_vectors", "from_model"}) =>
              (embedder' = embedder /\ fv' = fv)
       /\ Count(fv'.steps, "pca") <= 1
       /\ Count(fv'.steps, "zipf") + Count(fv'.steps, "frequency") <= 1]_vars

\* C9 witness: an embedder built with PCA and Zipf weighting has served an encode call.
C9_Witness ==
    /\ embedder.constructed /\ lastOp.op = "encode" /\ lastOp.texts # <<>>
    /\ Count(fv.steps, "pca") = 1 /\ Count(fv.steps, "zipf") = 1

\* C10: with apply_zipf and not apply_frequency the row at 0-based position i of
\* the table (pad and unknown tokens included) is multiplied by ln(i+1): row 0
\* becomes zero, every other weight is positive and larger than the one before.
C10_ZipfWeights ==
    (fv.called /\ fv.outcome = "ok" /\ fv.apply_zipf /\ ~fv.apply_frequency) =>
        LET n == Len(embedder.vectors.items)
            w == ZipfWeights(n)
        IN /\ Len(embedder.vectors.vals) = n /\ Len(fv.unweighted) = n
           /\ \A i \in 0..(n - 1) :
                  /\ w[i + 1] = LnMilli(i + 1)
                  /\ embedder.vectors.vals[i + 1] = fv.unweighted[i + 1] * LnMilli(i + 1)
           /\ embedder.vectors.vals[1] = 0
           /\ \A i \in 1..(n - 1) : w[i + 1] > 0 /\ w[i + 1] > w[i]

\* C10 witness: a Zipf-weighted table of at least 300 rows whose first row was not zero.
C10_Witness ==
    /\ fv.called /\ fv.outcome = "ok" /\ fv.apply_zipf /\ ~fv.apply_frequency
    /\ Len(embedder.vectors.items) >= 300
    /\ fv.unweighted[1] # 0
    /\ embedder.vectors.vals[1] = 0

\* C5: for a batch size of at least 1 and a non-empty sentence list, the batches
\* are contiguous, of batch_size sentences (the last possibly fewer), cover the
\* sentences once in order, and the output is the rows of the sentences in input
\* order, hence the same for every batch size.
C5_BatchSizeIrrelevant ==
    (torchOp.op = "encode" /\ torchOp.batch_size >= 1 /\ torchOp.sentences # <<>>) =>
        LET n == Len(torchOp.sentences)
            bs == torchOp.batch_size
            nb == Len(torchOp.batches)
        IN /\ torchOp.status = "ok"
           /\ nb = (n + bs - 1) \div bs
           /\ \A k \in 1..(nb - 1) : Len(torchOp.batches[k]) = bs
           /\ Len(torchOp.batches[nb]) = n - (nb - 1) * bs
           /\ \A i \in 1..n :
                  torchOp.batches[((i - 1) \div bs) + 1][((i - 1) % bs) + 1] = torchOp.sentences[i]
           /\ torchOp.output = [i \in 1..n |-> [row_of |-> torchOp.sentences[i]]]

\* C5 witness: an encode in several batches, the last one shorter.
C5_Witness ==
    /\ torchOp.op = "encode" /\ torchOp.status = "ok"
    /\ Len(torchOp.batches) >= 2
    /\ Len(torchOp.batches[Len(torchOp.batches)]) < torchOp.batch_size
    /\ \E i \in 2..Len(torchOp.sentences) : torchOp.sentences[i] # torchOp.sentences[1]

\* C8: every constructed TorchEncoder's model is in evaluation mode, whatever
\* to and encode calls were made; to(device) returns the encoder it was called
\* on, keeps its model and leaves that model on device; encode leaves every
\* model's device as it was.
C8_EvalModeAndDevice ==
    [][/\ \A e \in EncoderIds : encoders'[e] # 0 => ~models'[encoders'[e]].training
       /\ (torchOp.op = "none" /\ torchOp'.op = "to") =>
              /\ torchOp'.returned = torchOp'.self
              /\ encoders'[torchOp'.self] = encoders[torchOp'.self]
              /\ models'[encoders'[torchOp'.self]].device = torchOp'.device
       /\ (torchOp.op = "none" /\ torchOp'.op = "encode") =>
              \A m \in ModelIds : models'[m].device = models[m].device]_vars

\* C8 witness: an encoder that was moved to another device has encoded sentences.
C8_Witness ==
    /\ torchOp.op = "encode" /\ torchOp.status = "ok"
    /\ models[encoders[torchOp.self]].device = "cuda"
    /\ ~models[encoders[torchOp.self]].training

====
